---- MODULE Spec2Model ----
(***************************************************************************)
(* Model of font_management.py: load_fonts (the fallback chain local       *)
(* override -> Google Fonts download with on-disk cache -> bundled Roboto) *)
(* and download_google_font (catalog request, CSS parsing, weight          *)
(* assignment, per-weight cache check / download / write, back-fill).      *)
(*                                                                         *)
(* Strings (family names, file names, paths, URLs) are sequences of        *)
(* one-character strings, so that lower(), replace(), endswith() and       *)
(* concatenation are computed as the code computes them.                   *)
(***************************************************************************)
EXTENDS Integers, Sequences, FiniteSets, TLC

(***************************************************************************)
(* Bounds of the model                                                     *)
(***************************************************************************)
\* number of load_fonts calls in one behaviour of the sequential specification
MaxCalls == 2
\* number of load_fonts calls in one behaviour of the concurrent specification
MaxConcCalls == 2

\* the callers of load_fonts
Callers == {1, 2}

(***************************************************************************)
(* String helpers (Python str methods used by the source)                  *)
(***************************************************************************)
UpperChars == <<"A","B","C","D","E","F","G","H","I","J","K","L","M",
                "N","O","P","Q","R","S","T","U","V","W","X","Y","Z">>
LowerChars == <<"a","b","c","d","e","f","g","h","i","j","k","l","m",
                "n","o","p","q","r","s","t","u","v","w","x","y","z">>

\* str.lower() on one character
LowerChar(ch) ==
    IF \E k \in 1..26 : UpperChars[k] = ch
    THEN LowerChars[CHOOSE k \in 1..26 : UpperChars[k] = ch]
    ELSE ch

\* str.lower()
StrLower(s) == [k \in 1..Len(s) |-> LowerChar(s[k])]

\* str.replace(" ", "_")
ReplaceSpace(s) == [k \in 1..Len(s) |-> IF s[k] = " " THEN "_" ELSE s[k]]

\* str.endswith(suf)
EndsWith(s, suf) ==
    /\ Len(s) >= Len(suf)
    /\ SubSeq(s, Len(s) - Len(suf) + 1, Len(s)) = suf

\* "sub in s"
Contains(s, sub) ==
    \E k \in 0..(Len(s) - Len(sub)) : SubSeq(s, k + 1, k + Len(sub)) = sub

(***************************************************************************)
(* Python dicts keep insertion order: a dict is a sequence of <<key,       *)
(* value>> pairs; assigning to an existing key keeps the key's position.   *)
(***************************************************************************)
DictKeys(d) == {d[k][1] : k \in 1..Len(d)}

DictHas(d, key) == key \in DictKeys(d)

DictGet(d, key) == d[CHOOSE k \in 1..Len(d) : d[k][1] = key][2]

DictSet(d, key, val) ==
    IF DictHas(d, key)
    THEN [k \in 1..Len(d) |-> IF d[k][1] = key THEN <<key, val>> ELSE d[k]]
    ELSE Append(d, <<key, val>>)

\* dict.setdefault(key, val)
DictSetDefault(d, key, val) == IF DictHas(d, key) THEN d ELSE Append(d, <<key, val>>)

(***************************************************************************)
(* Program constants                                                       *)
(***************************************************************************)
\* FONTS_DIR = "fonts"
FONTS_DIR == <<"f","o","n","t","s">>

\* FONTS_CACHE_DIR = Path(FONTS_DIR) / "cache"
FONTS_CACHE_DIR == FONTS_DIR \o <<"/","c","a","c","h","e">>

\* os.path.join(dir, name) and Path / name
PathJoin(dir, name) == dir \o <<"/">> \o name

\* weights = [300, 400, 700]
DefaultWeights == <<300, 400, 700>>

S_light   == <<"l","i","g","h","t">>
S_regular == <<"r","e","g","u","l","a","r">>
S_bold    == <<"b","o","l","d">>
S_roboto  == <<"r","o","b","o","t","o">>
S_woff2   == <<"w","o","f","f","2">>
S_ttf     == <<"t","t","f">>
S_dashbd  == <<"-","b","d">>

\* weight_map = {300: "light", 400: "regular", 700: "bold"}; .get(weight, "regular")
WeightKey(w) ==
    CASE w = 300 -> S_light
      [] w = 400 -> S_regular
      [] w = 700 -> S_bold
      [] OTHER   -> S_regular

WeightClasses == {S_light, S_regular, S_bold}

(***************************************************************************)
(* Values returned by the two functions                                    *)
(***************************************************************************)
\* the Python value None, and a returned dict
None == [kind |-> "none", map |-> <<>>]
Some(d) == [kind |-> "map", map |-> d]

(***************************************************************************)
(* The catalog response (css_content) is the sequence of @font-face blocks *)
(* that follow the first split; a block is its font-weight declaration     *)
(* (0 when it has none) and the url(...) sources it lists, in order.       *)
(***************************************************************************)
\* re.search(r"url\((https://[^)]+\.(woff2|ttf))\)", block): the first source
\* of the block that ends in .woff2 or .ttf; <<>> when there is none
RECURSIVE UrlMatch(_)
UrlMatch(urls) ==
    IF urls = <<>> THEN <<>>
    ELSE IF EndsWith(Head(urls), <<".">> \o S_woff2) \/ EndsWith(Head(urls), <<".">> \o S_ttf)
         THEN Head(urls)
         ELSE UrlMatch(Tail(urls))

\* the loop over font_face_blocks[1:], started from the dict m
RECURSIVE ParseBlocks(_, _)
ParseBlocks(blocks, m) ==
    IF blocks = <<>> THEN m
    ELSE LET block == Head(blocks)
             url   == UrlMatch(block.urls)
         IN  IF block.weight = 0 THEN ParseBlocks(Tail(blocks), m)
             ELSE IF url # <<>>
                  THEN ParseBlocks(Tail(blocks), DictSet(m, block.weight, url))
                  ELSE ParseBlocks(Tail(blocks), m)

\* weight_url_map built from css_content
ParseCss(css) == ParseBlocks(css, <<>>)

Abs(x) == IF x < 0 THEN -x ELSE x

\* a substitution that takes the first catalog weight
ClosestWeight_First(m, weight) == m[1][1]

\* min(weight_url_map.keys(), key=lambda x: abs(x - weight)): Python's min
\* returns the first key, in the dict's order, whose distance is minimal
ClosestWeight(m, weight) ==
    LET k == CHOOSE k \in 1..Len(m) :
                 /\ \A j \in 1..Len(m) : Abs(m[k][1] - weight) <= Abs(m[j][1] - weight)
                 /\ \A j \in 1..(k - 1) : Abs(m[j][1] - weight) > Abs(m[k][1] - weight)
    IN  m[k][1]

\* weight assignment without the closest-weight substitution
WeightUrl_ExactOnly(m, weight) ==
    IF DictHas(m, weight) THEN DictGet(m, weight) ELSE <<>>

\* the URL chosen for a requested weight; <<>> when the class stays unassigned
WeightUrl(m, weight) ==
    IF DictHas(m, weight) THEN DictGet(m, weight)
    ELSE IF m # <<>> THEN DictGet(m, ClosestWeight(m, weight))
    ELSE <<>>

\* file_ext = "woff2" if weight_url.endswith(".woff2") else "ttf"
FileExt(url) == IF EndsWith(url, <<".">> \o S_woff2) THEN S_woff2 ELSE S_ttf

\* font_name_safe = font_family.replace(" ", "_").lower()
FontNameSafe(font_family) == StrLower(ReplaceSpace(font_family))

\* font_path = FONTS_CACHE_DIR / f"{font_name_safe}_{weight_key}.{file_ext}"
CachePath(font_family, weight_key, url) ==
    PathJoin(FONTS_CACHE_DIR,
             FontNameSafe(font_family) \o <<"_">> \o weight_key \o <<".">> \o FileExt(url))

\* back-fill that takes the missing weights from the bundled fonts
BackFill_Bundled(font_files) ==
    IF font_files = <<>> THEN font_files
    ELSE LET Fill(d, k) == DictSetDefault(d, k,
                 PathJoin(FONTS_DIR, <<"R","o","b","o","t","o","-","R","e","g","u","l","a","r",".","t","t","f">>))
         IN  Fill(Fill(Fill(font_files, S_regular), S_bold), S_light)

\* back-fill that forgets the light weight
BackFill_NoLight(font_files) ==
    LET f1 == IF ~DictHas(font_files, S_regular) /\ font_files # <<>>
              THEN DictSet(font_files, S_regular, font_files[1][2])
              ELSE font_files
    IN  IF ~DictHas(f1, S_bold) /\ DictHas(f1, S_regular)
        THEN DictSet(f1, S_bold, DictGet(f1, S_regular))
        ELSE f1

\* the back-fill at the end of download_google_font
BackFill(font_files) ==
    LET f1 == IF ~DictHas(font_files, S_regular) /\ font_files # <<>>
              THEN DictSet(font_files, S_regular, font_files[1][2])
              ELSE font_files
        f2 == IF ~DictHas(f1, S_bold) /\ DictHas(f1, S_regular)
              THEN DictSet(f1, S_bold, DictGet(f1, S_regular))
              ELSE f1
        f3 == IF ~DictHas(f2, S_light) /\ DictHas(f2, S_regular)
              THEN DictSet(f2, S_light, DictGet(f2, S_regular))
              ELSE f2
    IN  f3

\* return font_files if font_files else None
DownloadReturn(font_files) ==
    IF BackFill(font_files) # <<>> THEN Some(BackFill(font_files)) ELSE None

(***************************************************************************)
(* load_fonts: local override scan and bundled default fonts               *)
(***************************************************************************)
\* local_font_patterns
LocalFontPatterns(font_family) ==
    << font_family \o <<"-","R","e","g",".","t","t","f">>,
       font_family \o <<"-","R","e","g","u","l","a","r",".","t","t","f">>,
       font_family \o <<".","t","t","f">>,
       font_family \o <<"-","B","o","l","d",".","t","t","f">>,
       font_family \o <<"-","B","d",".","t","t","f">> ,
       font_family \o <<"-","L","i","g","h","t",".","t","t","f">> >>

\* the key a found pattern is recorded under
Categorize(pattern) ==
    LET pattern_lower == StrLower(pattern)
    IN  IF Contains(pattern_lower, S_light) THEN S_light
        ELSE IF Contains(pattern_lower, S_bold) \/ Contains(pattern_lower, S_dashbd) THEN S_bold
        ELSE S_regular

\* a scan that looks only for the three regular patterns
RECURSIVE ScanLocal_RegularOnly(_, _, _)
ScanLocal_RegularOnly(patterns, exists, d) ==
    IF patterns = <<>> \/ Len(patterns) <= 3 THEN d
    ELSE LET font_path == PathJoin(FONTS_DIR, Head(patterns))
         IN  IF font_path \in exists
             THEN ScanLocal_RegularOnly(Tail(patterns), exists, DictSet(d, S_regular, font_path))
             ELSE ScanLocal_RegularOnly(Tail(patterns), exists, d)

\* the loop over local_font_patterns, started from the dict d; exists is the
\* set of paths os.path.exists answers True for
RECURSIVE ScanLocal(_, _, _)
ScanLocal(patterns, exists, d) ==
    IF patterns = <<>> THEN d
    ELSE LET font_path == PathJoin(FONTS_DIR, Head(patterns))
         IN  IF font_path \in exists
             THEN ScanLocal(Tail(patterns), exists, DictSet(d, Categorize(Head(patterns)), font_path))
             ELSE ScanLocal(Tail(patterns), exists, d)

\* a fill that takes the last value instead of the first as fallback
FillLocal_Last(local_fonts) ==
    IF DictHas(local_fonts, S_regular)
    THEN LET base_font == DictGet(local_fonts, S_regular)
         IN  DictSetDefault(DictSetDefault(local_fonts, S_bold, base_font), S_light, base_font)
    ELSE IF local_fonts # <<>>
    THEN LET base_font == local_fonts[Len(local_fonts)][2]
         IN  DictSetDefault(DictSetDefault(DictSetDefault(local_fonts,
                 S_regular, base_font), S_bold, base_font), S_light, base_font)
    ELSE local_fonts

\* "Fill missing weights with available ones"
FillLocal(local_fonts) ==
    IF DictHas(local_fonts, S_regular)
    THEN LET base_font == DictGet(local_fonts, S_regular)
         IN  DictSetDefault(DictSetDefault(local_fonts, S_bold, base_font), S_light, base_font)
    ELSE IF local_fonts # <<>>
    THEN LET base_font == local_fonts[1][2]
         IN  DictSetDefault(DictSetDefault(DictSetDefault(local_fonts,
                 S_regular, base_font), S_bold, base_font), S_light, base_font)
    ELSE local_fonts

\* the bundled Roboto files, in the order of the fonts dict
RobotoFonts ==
    << <<S_bold,    PathJoin(FONTS_DIR, <<"R","o","b","o","t","o","-","B","o","l","d",".","t","t","f">>)>>,
       <<S_regular, PathJoin(FONTS_DIR, <<"R","o","b","o","t","o","-","R","e","g","u","l","a","r",".","t","t","f">>)>>,
       <<S_light,   PathJoin(FONTS_DIR, <<"R","o","b","o","t","o","-","L","i","g","h","t",".","t","t","f">>)>> >>

\* verification with the test inverted
DefaultFonts_Inverted(exists) ==
    IF \E k \in 1..Len(RobotoFonts) : RobotoFonts[k][2] \in exists
    THEN None
    ELSE Some(RobotoFonts)

\* the bundled fonts returned without verification
DefaultFonts_NoVerify(exists) == Some(RobotoFonts)

\* "Default: Load local Roboto fonts" and "Verify fonts exist"
DefaultFonts(exists) ==
    IF \E k \in 1..Len(RobotoFonts) : RobotoFonts[k][2] \notin exists
    THEN None
    ELSE Some(RobotoFonts)

\* the guard with a case-sensitive comparison
IsCustomFamily_CaseSensitive(font_family) == font_family # <<>> /\ font_family # S_roboto

\* the guard of the custom-family branch: font_family and font_family.lower() != "roboto"
IsCustomFamily(font_family) == font_family # <<>> /\ StrLower(font_family) # S_roboto

(***************************************************************************)
(* Inputs of the model                                                     *)
(***************************************************************************)
F_none   == <<>>
F_Roboto == <<"R","o","b","o","t","o">>
F_Ab     == <<"A"," ","b">>

\* the font_family arguments of the calls (None and "" are both falsy: <<>>)
Families == {F_none, F_Roboto, F_Ab}

U1 == <<"u","1",".","w","o","f","f","2">>
U2 == <<"u","2",".","w","o","f","f","2">>
U3 == <<"u","3",".","w","o","f","f","2">>
U5 == <<"u","5",".","t","t","f">>
U9 == <<"u","9",".","w","o","f","f">>

\* catalog {400: u1, 700: u2}
Css_400_700 == << [weight |-> 400, urls |-> <<U1>>], [weight |-> 700, urls |-> <<U2>>] >>
\* catalog {500: u5, 300: u3}, listed in that order
Css_500_300 == << [weight |-> 500, urls |-> <<U5>>], [weight |-> 300, urls |-> <<U3>>] >>
\* a response that parses to zero entries: a block without font-weight and a
\* block without a woff2/ttf source
Css_empty   == << [weight |-> 0, urls |-> <<U1>>], [weight |-> 400, urls |-> <<U9>>] >>

\* the bodies a successful catalog request can return
CssResponses == {Css_400_700, Css_500_300, Css_empty}

\* local override files that may be present in fonts/
LocalCandidates ==
    { PathJoin(FONTS_DIR, F_Ab \o <<"-","B","o","l","d",".","t","t","f">>),
      PathJoin(FONTS_DIR, F_Ab \o <<".","t","t","f">>) }

\* bundled files that may be present in fonts/
BundledPaths == {RobotoFonts[k][2] : k \in 1..Len(RobotoFonts)}

\* content of a file that this system did not write
OnDisk == [src |-> <<"d","i","s","k">>, state |-> "full"]

(***************************************************************************)
(* State                                                                   *)
(***************************************************************************)
VARIABLES
    files,           \* the filesystem: existing path -> [src, state]; state is
                     \* "partial" between open(path, "wb") and the end of write
    cacheDir,        \* TRUE when fonts/cache exists
    pc,              \* per caller: position in load_fonts / download_google_font
    font_family,     \* per caller: the argument of the call
    css_content,     \* per caller: the catalog response
    weight_url_map,  \* per caller: the parsed catalog
    idx,             \* per caller: position of the loop "for weight in weights"
    font_files,      \* per caller: the dict collected by download_google_font
    content,         \* per caller: font_response.content (the URL it came from)
    ret,             \* per caller: what load_fonts returned or raised
    io,              \* per caller: the I/O operations the call has performed
    calls,           \* number of calls started
    catalogs,        \* the bodies the catalog service returns in this behaviour
    last,            \* summary of the call that completed last
    prev             \* per caller: value of last when the call started

vars == <<files, cacheDir, pc, font_family, css_content, weight_url_map, idx,
          font_files, content, ret, io, calls, catalogs, last, prev>>

Pending == [kind |-> "pending", map |-> <<>>]
\* an exception propagated out of load_fonts
Raised  == [kind |-> "raised", map |-> <<>>]

NoCall == [family |-> <<>>, stage |-> "none", css |-> <<>>, font_files |-> <<>>]

\* an existence check that never finds the file
Exists_Never(path) == FALSE

\* font_path.exists()
Exists(path) == path \in DOMAIN files

\* the file at path becomes v
FileSet(path, v) == [p \in (DOMAIN files) \cup {path} |-> IF p = path THEN v ELSE files[p]]

Ev(op, arg) == [op |-> op, arg |-> arg]

\* the state of the callers before any call, and an empty cache
InitCallers ==
    /\ cacheDir = FALSE
    /\ pc = [c \in Callers |-> "idle"]
    /\ font_family = [c \in Callers |-> <<>>]
    /\ css_content = [c \in Callers |-> <<>>]
    /\ weight_url_map = [c \in Callers |-> <<>>]
    /\ idx = [c \in Callers |-> 1]
    /\ font_files = [c \in Callers |-> <<>>]
    /\ content = [c \in Callers |-> <<>>]
    /\ ret = [c \in Callers |-> Pending]
    /\ io = [c \in Callers |-> <<>>]
    /\ calls = 0
    /\ last = NoCall
    /\ prev = [c \in Callers |-> NoCall]

Init ==
    /\ \E loc \in SUBSET LocalCandidates, bun \in SUBSET BundledPaths :
           files = [p \in loc \cup bun |-> OnDisk]
    /\ catalogs = CssResponses
    /\ InitCallers

(***************************************************************************)
(* load_fonts up to the call of download_google_font                       *)
(***************************************************************************)
\* the call ends: load_fonts returns r (or raises), having ended in stage
Finish(c, r, stage, fam, css, ff) ==
    /\ ret' = [ret EXCEPT ![c] = r]
    /\ pc' = [pc EXCEPT ![c] = "done"]
    /\ last' = [family |-> fam, stage |-> stage, css |-> css, font_files |-> ff]

LoadFonts(c, f) ==
    /\ pc[c] \in {"idle", "done"}
    /\ font_family' = [font_family EXCEPT ![c] = f]
    /\ prev' = [prev EXCEPT ![c] = last]
    /\ css_content' = [css_content EXCEPT ![c] = <<>>]
    /\ weight_url_map' = [weight_url_map EXCEPT ![c] = <<>>]
    /\ idx' = [idx EXCEPT ![c] = 1]
    /\ font_files' = [font_files EXCEPT ![c] = <<>>]
    /\ content' = [content EXCEPT ![c] = <<>>]
    /\ calls' = calls + 1
    /\ IF IsCustomFamily(f)
       THEN LET local_fonts == ScanLocal(LocalFontPatterns(f), DOMAIN files, <<>>)
            IN  /\ io' = [io EXCEPT ![c] = <<Ev("scan", FONTS_DIR)>>]
                /\ IF local_fonts # <<>>
                   THEN Finish(c, Some(FillLocal(local_fonts)), "local", f, <<>>, <<>>)
                   ELSE /\ pc' = [pc EXCEPT ![c] = "mkdir"]
                        /\ ret' = [ret EXCEPT ![c] = Pending]
                        /\ UNCHANGED last
       ELSE /\ io' = [io EXCEPT ![c] = <<>>]
            /\ Finish(c, DefaultFonts(DOMAIN files), "default", f, <<>>, <<>>)
    /\ UNCHANGED <<files, cacheDir, catalogs>>

(***************************************************************************)
(* download_google_font, one action per I/O step                           *)
(***************************************************************************)
\* the weight, key, URL and cache path of the current loop iteration
CurWeight(c) == DefaultWeights[idx[c]]
CurKey(c)    == WeightKey(CurWeight(c))
CurUrl(c)    == WeightUrl(weight_url_map[c], CurWeight(c))
CurPath(c)   == CachePath(font_family[c], CurKey(c), CurUrl(c))

\* the loop moves to the next weight, or leaves the loop after the last one
NextWeight(c) ==
    IF idx[c] < Len(DefaultWeights)
    THEN /\ idx' = [idx EXCEPT ![c] = idx[c] + 1]
         /\ pc' = [pc EXCEPT ![c] = "weight"]
    ELSE /\ idx' = idx
         /\ pc' = [pc EXCEPT ![c] = "return"]

\* FONTS_CACHE_DIR.mkdir(parents=True, exist_ok=True), outside the try block:
\* it succeeds when the directory exists; creating it may fail, and the
\* exception then leaves download_google_font and load_fonts
Mkdir(c) ==
    /\ pc[c] = "mkdir"
    /\ io' = [io EXCEPT ![c] = Append(io[c], Ev("mkdir", FONTS_CACHE_DIR))]
    /\ \E ok \in BOOLEAN :
          IF ok \/ cacheDir
          THEN /\ cacheDir' = TRUE
               /\ pc' = [pc EXCEPT ![c] = "catalog"]
               /\ UNCHANGED <<ret, last>>
          ELSE /\ cacheDir' = cacheDir
               /\ Finish(c, Raised, "raised", font_family[c], <<>>, <<>>)
    /\ UNCHANGED <<files, font_family, css_content, weight_url_map, idx,
                   font_files, content, calls, catalogs, prev>>

\* requests.get(api_url, ...), raise_for_status() and the CSS parsing; a
\* failure is caught by the outer except, download_google_font returns None
\* and load_fonts falls back to the bundled fonts
FetchCatalog(c) ==
    /\ pc[c] = "catalog"
    /\ io' = [io EXCEPT ![c] = Append(io[c], Ev("catalog", font_family[c]))]
    /\ \E ok \in BOOLEAN, css \in catalogs :
          IF ok
          THEN /\ css_content' = [css_content EXCEPT ![c] = css]
               /\ weight_url_map' = [weight_url_map EXCEPT ![c] = ParseCss(css)]
               /\ pc' = [pc EXCEPT ![c] = "weight"]
               /\ UNCHANGED <<ret, last>>
          ELSE /\ UNCHANGED <<css_content, weight_url_map>>
               /\ Finish(c, DefaultFonts(DOMAIN files), "default", font_family[c], <<>>, <<>>)
    /\ UNCHANGED <<files, cacheDir, font_family, idx, font_files, content, calls, catalogs, prev>>

\* one iteration up to "if not font_path.exists()": URL lookup, cache path,
\* existence check; a cached file is recorded without a download
CheckCache(c) ==
    /\ pc[c] = "weight"
    /\ IF CurUrl(c) = <<>>
       THEN /\ NextWeight(c)
            /\ UNCHANGED font_files
       ELSE IF ~Exists(CurPath(c))
       THEN /\ pc' = [pc EXCEPT ![c] = "download"]
            /\ UNCHANGED <<idx, font_files>>
       ELSE /\ font_files' = [font_files EXCEPT ![c] = DictSet(font_files[c], CurKey(c), CurPath(c))]
            /\ NextWeight(c)
    /\ UNCHANGED <<files, cacheDir, font_family, css_content, weight_url_map,
                   content, ret, io, calls, catalogs, last, prev>>

\* the call's log grows by evs; the event "failed" is the message printed by
\* the inner except ("Failed to download {weight_key}")
Log(c, evs) == io' = [io EXCEPT ![c] = io[c] \o evs]

\* a download whose failure leaves the loop instead of continuing it
Download_Abort(c) ==
    /\ pc[c] = "download"
    /\ \E ok \in BOOLEAN :
          IF ok
          THEN /\ Log(c, <<Ev("download", CurUrl(c))>>)
               /\ content' = [content EXCEPT ![c] = CurUrl(c)]
               /\ pc' = [pc EXCEPT ![c] = "write"]
               /\ idx' = idx
          ELSE /\ Log(c, <<Ev("download", CurUrl(c)), Ev("failed", CurKey(c))>>)
               /\ content' = content
               /\ idx' = idx
               /\ pc' = [pc EXCEPT ![c] = "return"]
    /\ UNCHANGED <<files, cacheDir, font_family, css_content, weight_url_map,
                   font_files, ret, calls, catalogs, last, prev>>

\* requests.get(weight_url, timeout=10) and raise_for_status(); a failure is
\* caught by the inner except and the loop continues
Download(c) ==
    /\ pc[c] = "download"
    /\ \E ok \in BOOLEAN :
          IF ok
          THEN /\ Log(c, <<Ev("download", CurUrl(c))>>)
               /\ content' = [content EXCEPT ![c] = CurUrl(c)]
               /\ pc' = [pc EXCEPT ![c] = "write"]
               /\ idx' = idx
          ELSE /\ Log(c, <<Ev("download", CurUrl(c)), Ev("failed", CurKey(c))>>)
               /\ content' = content
               /\ NextWeight(c)
    /\ UNCHANGED <<files, cacheDir, font_family, css_content, weight_url_map,
                   font_files, ret, calls, catalogs, last, prev>>

\* font_path.write_bytes(...), first half: open(font_path, "wb") creates or
\* truncates the file; when the open fails no file is created
OpenWrite(c) ==
    /\ pc[c] = "write"
    /\ \E ok \in BOOLEAN :
          IF ok
          THEN /\ Log(c, <<Ev("write", CurPath(c))>>)
               /\ files' = FileSet(CurPath(c), [src |-> content[c], state |-> "partial"])
               /\ pc' = [pc EXCEPT ![c] = "writing"]
               /\ idx' = idx
          ELSE /\ Log(c, <<Ev("write", CurPath(c)), Ev("failed", CurKey(c))>>)
               /\ files' = files
               /\ NextWeight(c)
    /\ UNCHANGED <<cacheDir, font_family, css_content, weight_url_map,
                   font_files, content, ret, calls, catalogs, last, prev>>

\* font_path.write_bytes(...), second half: the bytes are written and the
\* file is closed, then font_files[weight_key] = str(font_path); when the
\* write fails part-way the file stays as it is and the loop continues
WriteBytes(c) ==
    /\ pc[c] = "writing"
    /\ \E ok \in BOOLEAN :
          IF ok
          THEN /\ files' = FileSet(CurPath(c), [src |-> content[c], state |-> "full"])
               /\ font_files' = [font_files EXCEPT ![c] = DictSet(font_files[c], CurKey(c), CurPath(c))]
               /\ io' = io
          ELSE /\ Log(c, <<Ev("failed", CurKey(c))>>)
               /\ UNCHANGED <<files, font_files>>
    /\ NextWeight(c)
    /\ UNCHANGED <<cacheDir, font_family, css_content, weight_url_map,
                   content, ret, calls, catalogs, last, prev>>

\* the back-fill and the return of download_google_font, then load_fonts:
\* "if fonts: return fonts", else the bundled fonts
Return(c) ==
    /\ pc[c] = "return"
    /\ LET fonts == DownloadReturn(font_files[c])
       IN  IF fonts.kind = "map"
           THEN Finish(c, fonts, "remote", font_family[c], css_content[c], font_files[c])
           ELSE Finish(c, DefaultFonts(DOMAIN files), "default", font_family[c], css_content[c], font_files[c])
    /\ UNCHANGED <<files, cacheDir, font_family, css_content, weight_url_map, idx,
                   font_files, content, io, calls, catalogs, prev>>

\* a step of a call in progress
Step(c) ==
    \/ Mkdir(c)
    \/ FetchCatalog(c)
    \/ CheckCache(c)
    \/ Download(c)
    \/ OpenWrite(c)
    \/ WriteBytes(c)
    \/ Return(c)

(***************************************************************************)
(* Specifications                                                          *)
(***************************************************************************)
\* sequential calls: a call starts when no other call is in progress
Call(c, f) ==
    /\ calls < MaxCalls
    /\ \A d \in Callers : pc[d] \in {"idle", "done"}
    /\ LoadFonts(c, f)

Next ==
    \/ \E f \in Families : Call(1, f)
    \/ \E c \in Callers : Step(c)

Spec == Init /\ [][Next]_vars

\* catalog {100: u1, 900: u2}
Css_100_900 == << [weight |-> 100, urls |-> <<U1>>], [weight |-> 900, urls |-> <<U2>>] >>
\* one block for weight 400 that lists the ttf source before the woff2 source
Css_ttf_first   == << [weight |-> 400, urls |-> <<U5, U1>>] >>
\* one block for weight 400 that lists the woff2 source before the ttf source
Css_woff2_first == << [weight |-> 400, urls |-> <<U1, U5>>] >>
\* two blocks for weight 400, the woff2 one first
Css_two_blocks  == << [weight |-> 400, urls |-> <<U1>>], [weight |-> 400, urls |-> <<U5>>] >>
\* one block whose first source is neither woff2 nor ttf
Css_skip_woff   == << [weight |-> 700, urls |-> <<U9, U2>>] >>

\* the catalog bodies of the catalog specification
CatBodies ==
    {Css_400_700, Css_500_300, Css_empty, Css_100_900,
     Css_ttf_first, Css_woff2_first, Css_two_blocks, Css_skip_woff}

\* no local override, the bundled fonts present, one catalog body out of CatBodies
InitCat ==
    /\ files = [p \in BundledPaths |-> OnDisk]
    /\ \E css \in CatBodies : catalogs = {css}
    /\ InitCallers

\* sequential calls against each catalog body
SpecCat == InitCat /\ [][Next]_vars

F_Delight == <<"D","e","l","i","g","h","t">>

\* the families of the local-override specification
FamiliesLocal == {F_Ab, F_Delight}

\* local override files that may be present in the local-override specification
LocalCandidatesAll ==
    { PathJoin(FONTS_DIR, F_Ab \o <<"-","B","o","l","d",".","t","t","f">>),
      PathJoin(FONTS_DIR, F_Ab \o <<"-","B","d",".","t","t","f">>),
      PathJoin(FONTS_DIR, F_Ab \o <<".","t","t","f">>),
      PathJoin(FONTS_DIR, F_Ab \o <<"-","L","i","g","h","t",".","t","t","f">>),
      PathJoin(FONTS_DIR, F_Delight \o <<"-","R","e","g","u","l","a","r",".","t","t","f">>),
      PathJoin(FONTS_DIR, F_Delight \o <<"-","B","o","l","d",".","t","t","f">>) }

\* any of the local override files, the bundled fonts present, one catalog body
InitLocal ==
    /\ \E loc \in SUBSET LocalCandidatesAll :
           files = [p \in loc \cup BundledPaths |-> OnDisk]
    /\ catalogs = {Css_400_700}
    /\ InitCallers

NextLocal ==
    \/ \E f \in FamiliesLocal : Call(1, f)
    \/ \E c \in Callers : Step(c)

\* sequential calls for families with local override files
SpecLocal == InitLocal /\ [][NextLocal]_vars

\* concurrent calls: independent callers start calls at any time
CallConc(c, f) ==
    /\ calls < MaxConcCalls
    /\ LoadFonts(c, f)

NextConc ==
    \/ \E c \in Callers : CallConc(c, F_Ab)
    \/ \E c \in Callers : Step(c)

\* no local override, the bundled fonts present, one catalog body
InitConc ==
    /\ files = [p \in BundledPaths |-> OnDisk]
    /\ catalogs = {Css_400_700}
    /\ InitCallers

SpecConc == InitConc /\ [][NextConc]_vars

(***************************************************************************)
(* Properties                                                              *)
(***************************************************************************)
\* number of operations of kind op in a call's log
Count(log, op) == Cardinality({k \in 1..Len(log) : log[k].op = op})

\* the keys of the map a call returned
RetKeys(c) == DictKeys(ret[c].map)

\* C1: load_fonts returns None or a map with the three keys light, regular
\* and bold; a map with only one or two of the keys is never returned.
C1_CompleteOrNone ==
    \A c \in Callers :
        /\ ret[c].kind = "map" => RetKeys(c) = WeightClasses
        /\ (pc[c] = "done" /\ ret[c].kind # "raised") => ret[c].kind \in {"none", "map"}

\* a call whose remote stage obtained a single weight returned a map
C1_Witness ==
    \E c \in Callers :
        /\ pc[c] = "done"
        /\ Len(font_files[c]) = 1
        /\ ret[c].kind = "map"

\* the previous call was for the same family, ended in the remote stage and
\* had every weight class cached (found or written) before the back-fill
RepeatOfCached(c) ==
    /\ pc[c] = "done"
    /\ prev[c].stage = "remote"
    /\ prev[c].family = font_family[c]
    /\ DictKeys(prev[c].font_files) = WeightClasses

\* C2 (as stated): a second resolve of a family that the first resolve cached
\* through the remote stage issues no network request at all, neither a
\* catalog request nor a font-file download.
C2_NoNetworkOnRepeat ==
    \A c \in Callers :
        RepeatOfCached(c) => Count(io[c], "catalog") = 0 /\ Count(io[c], "download") = 0

\* C2 (amended): the second resolve issues exactly one catalog request, and
\* no font-file download when that request fails or returns the catalog of
\* the first call.
C2_OnlyCatalogOnRepeat ==
    \A c \in Callers :
        RepeatOfCached(c) =>
            /\ Count(io[c], "catalog") = 1
            /\ css_content[c] \in {<<>>, prev[c].css} => Count(io[c], "download") = 0

\* a repeated call that got the same catalog and returned the cached files
C2_Witness ==
    \E c \in Callers :
        /\ RepeatOfCached(c)
        /\ css_content[c] = prev[c].css
        /\ DictKeys(font_files[c]) = WeightClasses
        /\ ret[c].kind = "map"

\* files of the cache that hold a complete download
Downloaded ==
    {p \in DOMAIN files : files[p].state = "full" /\ files[p] # OnDisk}

\* caller c issues a font-file download in this step
DownloadIssued(c) == Count(io'[c], "download") > Count(io[c], "download")

\* C3: a font-file download is issued only for a cache path that does not
\* exist, and a file once downloaded stays in place, so over sequential calls
\* a weight class whose download succeeded is never downloaded again.
C3_CachedNotDownloaded ==
    [][ /\ \A c \in Callers :
               DownloadIssued(c) => CachePath(font_family[c], CurKey(c), CurUrl(c)) \notin DOMAIN files
        /\ \A p \in Downloaded : p \in DOMAIN files' /\ files'[p] = files[p] ]_vars

\* a call took a weight from the cache without downloading anything
C3_Witness ==
    \E c \in Callers :
        /\ pc[c] = "done"
        /\ font_files[c] # <<>>
        /\ Count(io[c], "download") = 0
        /\ \A k \in 1..Len(font_files[c]) : font_files[c][k][2] \in Downloaded

\* C4: cache writes are all-or-nothing: once no write is in progress, no
\* partially written file is left at a cache path.
C4_AtomicWrite ==
    \A p \in DOMAIN files :
        files[p].state = "partial" =>
            \E c \in Callers : pc[c] = "writing" /\ CurPath(c) = p

\* C5: with concurrent calls, every cache path a caller has seen to exist or
\* has recorded for its result holds a completely written file.
C5_NoPartialObserved ==
    \A c \in Callers :
        \A k \in 1..Len(font_files[c]) :
            pc[c] # "idle" => files[font_files[c][k][2]].state = "full"

\* the scenario of C6: the first call of the behaviour (empty cache), for a
\* family without local override, catalog {400: u1, 700: u2}, and every
\* download and write it issued succeeded
Scenario_400_700(c) ==
    /\ pc[c] = "done"
    /\ calls = 1
    /\ font_family[c] = F_Ab
    /\ css_content[c] = Css_400_700
    /\ Count(io[c], "download") = Len(font_files[c])

\* the source of the file a returned key points to
RetSrc(c, key) == files[DictGet(ret[c].map, key)].src

\* C6 (as stated): Regular is the download of u1, Bold the download of u2,
\* Light is the same path as Regular, and exactly two downloads occur.
C6_TwoDownloads ==
    \A c \in Callers :
        Scenario_400_700(c) =>
            /\ ret[c].kind = "map"
            /\ RetSrc(c, S_regular) = U1
            /\ RetSrc(c, S_bold) = U2
            /\ DictGet(ret[c].map, S_light) = DictGet(ret[c].map, S_regular)
            /\ Count(io[c], "download") = 2

\* C6 (amended): Regular is the download of u1, Bold the download of u2,
\* Light is a cache file of its own downloaded from u1 (the closest weight),
\* and exactly three downloads occur.
C6_ThreeDownloads ==
    \A c \in Callers :
        Scenario_400_700(c) =>
            /\ ret[c].kind = "map"
            /\ RetKeys(c) = WeightClasses
            /\ RetSrc(c, S_regular) = U1
            /\ RetSrc(c, S_bold) = U2
            /\ RetSrc(c, S_light) = U1
            /\ DictGet(ret[c].map, S_light) # DictGet(ret[c].map, S_regular)
            /\ DictGet(ret[c].map, S_light) = PathJoin(FONTS_CACHE_DIR,
                   <<"a","_","b","_","l","i","g","h","t",".","w","o","f","f","2">>)
            /\ Count(io[c], "download") = 3

\* the scenario has run to its end
C6_Witness ==
    \E c \in Callers : Scenario_400_700(c) /\ ret[c].kind = "map" /\ Len(font_files[c]) = 3

\* the catalog weights at minimal distance from weight
Nearest(m, weight) ==
    {w \in DictKeys(m) : \A v \in DictKeys(m) : Abs(w - weight) <= Abs(v - weight)}

\* C7: when the requested weight is absent from the catalog and two catalog
\* weights are equally distant from it, the URL used is that of the lower one,
\* whatever the order of the catalog response.
C7_TieLower ==
    \A c \in Callers :
        (pc[c] = "weight" /\ weight_url_map[c] # <<>>
            /\ ~DictHas(weight_url_map[c], CurWeight(c))
            /\ Cardinality(Nearest(weight_url_map[c], CurWeight(c))) = 2)
        => \E w \in Nearest(weight_url_map[c], CurWeight(c)) :
               /\ \A v \in Nearest(weight_url_map[c], CurWeight(c)) : w <= v
               /\ CurUrl(c) = DictGet(weight_url_map[c], w)

\* C8: no exception propagates out of load_fonts.
C8_NoException ==
    \A c \in Callers : ret[c].kind # "raised"

\* C9: for a custom family without local override, when the catalog request
\* fails or yields zero entries and the three bundled files exist, the call
\* returns exactly the three bundled paths.
C9_TotalFallback ==
    \A c \in Callers :
        (pc[c] = "done" /\ IsCustomFamily(font_family[c])
            /\ Count(io[c], "catalog") = 1
            /\ weight_url_map[c] = <<>>
            /\ BundledPaths \subseteq DOMAIN files)
        => /\ ret[c].kind = "map"
           /\ RetKeys(c) = WeightClasses
           /\ \A k \in 1..Len(RobotoFonts) :
                  DictGet(ret[c].map, RobotoFonts[k][1]) = RobotoFonts[k][2]

\* the catalog request failed and the bundled fonts were returned
C9_Witness ==
    \E c \in Callers :
        /\ pc[c] = "done" /\ IsCustomFamily(font_family[c])
        /\ Count(io[c], "catalog") = 1
        /\ css_content[c] = <<>>
        /\ ret[c] = Some(RobotoFonts)

\* the chain of the call reached the default-fallback stage
DefaultReached(c) ==
    /\ pc[c] = "done"
    /\ \/ ~IsCustomFamily(font_family[c])
       \/ Count(io[c], "catalog") = 1 /\ font_files[c] = <<>>

\* C10: when the chain reaches the default-fallback stage and a bundled file
\* is missing, the call returns None, never a map of the bundled files that
\* exist.
C10_FailureTerminal ==
    \A c \in Callers :
        (DefaultReached(c) /\ ~(BundledPaths \subseteq DOMAIN files)) => ret[c] = None

\* the remote stage failed, two of the bundled files exist, None was returned
C10_Witness ==
    \E c \in Callers :
        /\ DefaultReached(c) /\ IsCustomFamily(font_family[c])
        /\ Cardinality(BundledPaths \cap DOMAIN files) = 2
        /\ ret[c] = None

\* the paths of the local override patterns of a family
LocalPaths(f) ==
    {PathJoin(FONTS_DIR, LocalFontPatterns(f)[k]) : k \in 1..Len(LocalFontPatterns(f))}

\* the values of a dict
DictValues(d) == {d[k][2] : k \in 1..Len(d)}

\* C11: when a local override file of the requested custom family exists, the
\* call returns a map built only from local override paths and performs no
\* network request, no directory creation and no file write.
C11_LocalPrecedence ==
    \A c \in Callers :
        (pc[c] # "idle" /\ IsCustomFamily(font_family[c])
            /\ LocalPaths(font_family[c]) \cap DOMAIN files # {})
        => /\ pc[c] = "done"
           /\ ret[c].kind = "map"
           /\ RetKeys(c) = WeightClasses
           /\ DictValues(ret[c].map) \subseteq LocalPaths(font_family[c]) \cap DOMAIN files
           /\ \A k \in 1..Len(io[c]) : io[c][k].op = "scan"

\* a call returned a map from a family whose only local file is the bold one
C11_Witness ==
    \E c \in Callers :
        /\ pc[c] = "done" /\ font_family[c] = F_Ab
        /\ LocalPaths(F_Ab) \cap DOMAIN files =
               {PathJoin(FONTS_DIR, F_Ab \o <<"-","B","o","l","d",".","t","t","f">>)}
        /\ ret[c].kind = "map"

\* C12: when the family is None, empty or equal to "roboto" whatever the case,
\* the call goes straight to the bundled fonts: no local scan, no network
\* request, no directory creation, and it returns the three bundled paths or
\* None.
C12_NoFamilyRequested ==
    \A c \in Callers :
        (pc[c] # "idle" /\ (font_family[c] = <<>> \/ StrLower(font_family[c]) = S_roboto))
        => /\ pc[c] = "done"
           /\ io[c] = <<>>
           /\ ret[c] \in {None, Some(RobotoFonts)}
           /\ ret[c] = None <=> ~(BundledPaths \subseteq DOMAIN files)

\* a call for "Roboto" returned the bundled fonts after an earlier call had
\* created the cache directory
C12_Witness ==
    \E c \in Callers :
        /\ pc[c] = "done" /\ font_family[c] = F_Roboto
        /\ cacheDir
        /\ ret[c] = Some(RobotoFonts)

\* C13: the URL downloaded for a weight class is the URL of its canonical
\* weight when the catalog has that key, otherwise the URL of a catalog weight
\* at minimal distance (catalog {100: urlA, 900: urlB}, target 400: urlA);
\* with an empty catalog no class is assigned.
C13_WeightAssignment ==
    \A c \in Callers :
        LET m == weight_url_map[c]
            w == CurWeight(c)
        IN  /\ pc[c] \in {"write", "writing"} =>
                   /\ w \in DictKeys(m) => \E k \in 1..Len(m) : m[k] = <<w, content[c]>>
                   /\ w \notin DictKeys(m) =>
                          \E k \in 1..Len(m) :
                              /\ m[k][2] = content[c]
                              /\ \A j \in 1..Len(m) : Abs(m[k][1] - w) <= Abs(m[j][1] - w)
                   /\ (css_content[c] = Css_100_900 /\ w = 400) => content[c] = U1
            /\ (pc[c] \in {"return", "done"} /\ Count(io[c], "catalog") = 1 /\ m = <<>>) =>
                   font_files[c] = <<>> /\ Count(io[c], "download") = 0

\* weight 700 of catalog {100, 900} was downloaded from the URL of 900
C13_Witness ==
    \E c \in Callers :
        /\ pc[c] = "write"
        /\ css_content[c] = Css_100_900
        /\ CurWeight(c) = 700
        /\ content[c] = U2

\* C16: parsing records one URL per declared weight, and when a woff2 and a
\* ttf source are offered for a weight, in one block or in several, the
\* recorded URL is the woff2 one.
C16_PreferWoff2 ==
    \A c \in Callers :
        \A k \in 1..Len(css_content[c]) :
            LET block == css_content[c][k]
            IN  (block.weight # 0 /\ \E j \in 1..Len(block.urls) :
                                        EndsWith(block.urls[j], <<".">> \o S_woff2))
                => /\ DictHas(weight_url_map[c], block.weight)
                   /\ EndsWith(DictGet(weight_url_map[c], block.weight), <<".">> \o S_woff2)

\* the weight classes whose download or write failed in the call
FailedKeys(c) == {io[c][k].arg : k \in {j \in 1..Len(io[c]) : io[c][j].op = "failed"}}

\* C14: a failed download of one weight class is absorbed: every class of a
\* non-empty catalog is still attempted, the failed class is absent from the
\* map before back-fill, the call returns a complete map made of the obtained
\* files when at least one class was obtained, and only when every class
\* failed does the chain go on to the bundled fonts.
C14_FailureAbsorbed ==
    \A c \in Callers :
        (pc[c] = "done" /\ weight_url_map[c] # <<>>) =>
            /\ DictKeys(font_files[c]) \cup FailedKeys(c) = WeightClasses
            /\ DictKeys(font_files[c]) \cap FailedKeys(c) = {}
            /\ font_files[c] # <<>> =>
                   /\ ret[c].kind = "map"
                   /\ RetKeys(c) = WeightClasses
                   /\ DictValues(ret[c].map) = DictValues(font_files[c])
            /\ font_files[c] = <<>> => ret[c] = DefaultFonts(DOMAIN files)

\* the light download failed, regular and bold were obtained, a map was returned
C14_Witness ==
    \E c \in Callers :
        /\ pc[c] = "done"
        /\ FailedKeys(c) = {S_light}
        /\ Count(io[c], "download") = 3
        /\ DictKeys(font_files[c]) = {S_regular, S_bold}
        /\ ret[c].kind = "map"

\* the map the local scan of the call built before the fill
PartialLocal(c) == ScanLocal(LocalFontPatterns(font_family[c]), DOMAIN files, <<>>)

\* result is partial completed by the back-fill policy: present classes keep
\* their path, missing ones get Regular's path, or the path of the first
\* class discovered when Regular is absent
BackFilled(partial, result) ==
    /\ DictKeys(result) = WeightClasses
    /\ \A key \in DictKeys(partial) : DictGet(result, key) = DictGet(partial, key)
    /\ \A key \in WeightClasses \ DictKeys(partial) :
           DictGet(result, key) = IF S_regular \in DictKeys(partial)
                                  THEN DictGet(partial, S_regular)
                                  ELSE partial[1][2]

\* C15: the local-override stage and the remote stage apply the same
\* back-fill to their partial map.
C15_BackFillPolicy ==
    \A c \in Callers :
        pc[c] = "done" =>
            /\ (IsCustomFamily(font_family[c]) /\ PartialLocal(c) # <<>>) =>
                   ret[c].kind = "map" /\ BackFilled(PartialLocal(c), ret[c].map)
            /\ font_files[c] # <<>> =>
                   ret[c].kind = "map" /\ BackFilled(font_files[c], ret[c].map)

\* a local map with bold and light only was filled from bold, the first found
C15_Witness ==
    \E c \in Callers :
        /\ pc[c] = "done" /\ font_family[c] = F_Ab
        /\ DictKeys(PartialLocal(c)) = {S_bold, S_light}
        /\ PartialLocal(c)[1][1] = S_bold
        /\ ret[c].kind = "map"
        /\ DictGet(ret[c].map, S_regular) = DictGet(PartialLocal(c), S_bold)

\* the class each of the six local patterns stands for, by its suffix
PatternClass == <<S_regular, S_regular, S_regular, S_bold, S_bold, S_light>>

\* the existing local override files of family f whose suffix stands for key
ExistingOf(f, key) ==
    {PathJoin(FONTS_DIR, LocalFontPatterns(f)[k]) :
        k \in {j \in 1..6 : PatternClass[j] = key}} \cap DOMAIN files

\* C18: a local file is recorded under the class of its suffix, for every
\* family name: when a file with a suffix of a class exists, the returned
\* path of that class is such a file.
C18_SuffixClassification ==
    \A c \in Callers :
        (pc[c] = "done" /\ IsCustomFamily(font_family[c]) /\ PartialLocal(c) # <<>>) =>
            \A key \in WeightClasses :
                ExistingOf(font_family[c], key) # {} =>
                    /\ ret[c].kind = "map"
                    /\ DictGet(ret[c].map, key) \in ExistingOf(font_family[c], key)

\* C17: once a complete file exists at a cache path, no call, sequential or
\* concurrent, overwrites, truncates or deletes it.
C17_CacheImmutable ==
    [][ \A p \in DOMAIN files :
            files[p].state = "full" => (p \in DOMAIN files' /\ files'[p] = files[p]) ]_vars

\* C19: every path of a returned map is a file that exists when the call
\* returns.
C19_ReturnedPathsExist ==
    \A c \in Callers :
        (pc[c] = "done" /\ ret[c].kind = "map") =>
            DictValues(ret[c].map) \subseteq DOMAIN files

\* a returned map holds a file written by the call and a back-filled key
C19_Witness ==
    \E c \in Callers :
        /\ pc[c] = "done" /\ ret[c].kind = "map"
        /\ Count(io[c], "write") >= 1
        /\ Len(font_files[c]) = 2
        /\ DictValues(ret[c].map) \subseteq Downloaded

\* the cache file names of a family
CacheFilesOf(f) ==
    {PathJoin(FONTS_CACHE_DIR, FontNameSafe(f) \o <<"_">> \o key \o <<".">> \o ext) :
        key \in WeightClasses, ext \in {S_woff2, S_ttf}}

\* C20: a returned map comes from one stage: its paths are all local override
\* files of the family, or all cache files of the family, or the three
\* bundled files.
C20_SingleStage ==
    \A c \in Callers :
        ret[c].kind = "map" =>
            \/ IsCustomFamily(font_family[c]) /\ DictValues(ret[c].map) \subseteq LocalPaths(font_family[c])
            \/ IsCustomFamily(font_family[c]) /\ DictValues(ret[c].map) \subseteq CacheFilesOf(font_family[c])
            \/ ret[c].map = RobotoFonts

\* a map of cache files with back-filled keys was returned while the bundled
\* fonts were present
C20_Witness ==
    \E c \in Callers :
        /\ pc[c] = "done" /\ ret[c].kind = "map"
        /\ Len(font_files[c]) = 1
        /\ BundledPaths \subseteq DOMAIN files
        /\ DictValues(ret[c].map) \subseteq CacheFilesOf(font_family[c])

====
